---- MODULE Spec2Model ----
(***************************************************************************)
(* Model of the configurator runtime (HomeContent and CameraRig of         *)
(* src/unnamed/part_002, PricingMatrix of src/components/PricingMatrix.tsx):*)
(* the selection store, the pricing resolver, and the camera orchestrator. *)
(*                                                                         *)
(* React state cells are variables; an event handler together with the     *)
(* render and the effects it triggers is one action.  useMemo values are   *)
(* operators over the state.                                               *)
(***************************************************************************)
EXTENDS Integers, Sequences, FiniteSets, TLC

VARIABLES
    \* ---- HomeContent state (useState cells) ----
    chapters,              \* Config["chapters"]                   (l.3337)
    chapterOrder,          \* string[]                              (l.3357)
    selections,            \* Record<groupId, optionValue>          (l.3373)
    pricingRules,          \* Record<target, Record<dep, number>>   (l.3725)
    focusTargetConfigs,    \* config.scene.focusTargets             (l.3309)
    activeChapterId,       \* string                                (l.3375)
    focus,                 \* SceneFocus handed to the CameraRig    (l.3369)
    focusRef,              \* useRef mirror used by handleScroll    (l.3370)
    orbitEnabled,          \* boolean                               (l.3313)
    orbitCameraState,      \* {position,target} | null              (l.3314)
    preOrbitCameraState,   \* {position,target} | null              (l.3318)
    resetCameraToken,      \* number                                (l.3322)
    \* ---- CameraRig refs ----
    spherical,             \* Spherical (radius, phi, theta)        (l.2434)
    transition,            \* {start,end,duration,progress,active}  (l.2441)
    lookAtCurrent,         \* Vector3                               (l.2454)
    lookAtTarget,          \* Vector3                               (l.2455)
    prevFocusRef,          \* SceneFocus                            (l.2456)
    prevResetRef,          \* number                                (l.2457)
    crashed,               \* the CameraRig threw while rendering or in an effect
    \* ---- bookkeeping of the exploration (not program state) ----
    priceEdits,            \* number of handleUpdatePrice calls so far
    frames                 \* useFrame calls since the rig was last at rest

configVars == <<chapters, chapterOrder, selections, pricingRules,
                focusTargetConfigs, activeChapterId>>
cameraVars == <<focus, focusRef, orbitEnabled, orbitCameraState,
                preOrbitCameraState, resetCameraToken>>
rigVars    == <<spherical, transition, lookAtCurrent, lookAtTarget,
                prevFocusRef, prevResetRef, crashed, frames>>
vars == <<configVars, cameraVars, rigVars, priceEdits>>

(***************************************************************************)
(* Bounds of the exploration.                                              *)
(***************************************************************************)
MaxPriceEdits == 2      \* handleUpdatePrice calls explored
MaxResets     == 1      \* resetCameraToken values explored
MaxFrames     == 2      \* useFrame calls explored between two rests of the rig

(***************************************************************************)
(* Generic helpers.                                                        *)
(***************************************************************************)
None    == <<>>                       \* null / undefined
Some(x) == <<x>>
IsSome(o) == Len(o) = 1
The(o)  == o[1]

Range(s) == {s[i] : i \in 1..Len(s)}

RECURSIVE Flatten(_)
Flatten(ss) == IF Len(ss) = 0 THEN <<>> ELSE Head(ss) \o Flatten(Tail(ss))

MapPut(m, k, v)  == [x \in (DOMAIN m) \cup {k} |-> IF x = k THEN v ELSE m[x]]
MapDel(m, k)     == [x \in (DOMAIN m) \ {k} |-> m[x]]
EmptyMap         == [x \in {} |-> 0]

\* index of the first element of s satisfying equality with e, 0 when absent
IndexOf(s, e) == IF e \in Range(s)
                   THEN CHOOSE i \in 1..Len(s) : s[i] = e /\ \A j \in 1..(i-1) : s[j] /= e
                   ELSE 0

(***************************************************************************)
(* Exact arithmetic.  Camera quantities are JavaScript numbers; the model  *)
(* keeps them as normalised fractions <<n, d>> (d > 0, gcd(n, d) = 1), so  *)
(* equal numbers are equal values.  Angles held in radians are kept as     *)
(* multiples of pi (1/2 is a right angle): degToRad divides by 180 and     *)
(* radToDeg multiplies by 180.                                             *)
(***************************************************************************)
Abs(n) == IF n < 0 THEN -n ELSE n

RECURSIVE GCD(_, _)
GCD(a, b) == IF b = 0 THEN a ELSE GCD(b, a % b)

Rat(n, d) == LET s == IF d < 0 THEN -1 ELSE 1
                 g == GCD(Abs(n), Abs(d))
             IN  <<(s * n) \div g, (s * d) \div g>>
Num(n)     == <<n, 1>>
RAdd(a, b) == Rat(a[1] * b[2] + b[1] * a[2], a[2] * b[2])
RSub(a, b) == Rat(a[1] * b[2] - b[1] * a[2], a[2] * b[2])
RMul(a, b) == Rat(a[1] * b[1], a[2] * b[2])
RDiv(a, b) == Rat(a[1] * b[2], a[2] * b[1])
RLt(a, b)  == a[1] * b[2] < b[1] * a[2]
RMin(a, b) == IF RLt(b, a) THEN b ELSE a
RNeg(a)    == <<-a[1], a[2]>>

\* Vector3
Vec(x, y, z) == <<Num(x), Num(y), Num(z)>>
VAdd(a, b)   == <<RAdd(a[1], b[1]), RAdd(a[2], b[2]), RAdd(a[3], b[3])>>
VSub(a, b)   == <<RSub(a[1], b[1]), RSub(a[2], b[2]), RSub(a[3], b[3])>>

\* MathUtils.lerp(x, y, t) = (1 - t) * x + t * y
lerp(x, y, t) == RAdd(RMul(RSub(Num(1), t), x), RMul(t, y))
\* Vector3.lerp(v, alpha): this += (v - this) * alpha, per component
VLerp(a, b, t) == [i \in 1..3 |-> RAdd(a[i], RMul(RSub(b[i], a[i]), t))]

\* l.2459-2461
easeOutCubic(t) == LET u == RSub(Num(1), t)
                   IN  RSub(Num(1), RMul(u, RMul(u, u)))

\* MathUtils.degToRad / radToDeg (l.2401-2402, l.3874-3875, l.3891-3892)
degToRad(deg) == RDiv(deg, Num(180))
radToDeg(rad) == RMul(rad, Num(180))

\* sine and cosine of an angle that is a whole number of right angles
Quadrant(a) == LET twice == RMul(a, Num(2)) IN twice[1] % 4
OnAxes(a)   == RMul(a, Num(2))[2] = 1
SinQ(a) == CASE Quadrant(a) = 0 -> 0 [] Quadrant(a) = 1 -> 1
             [] Quadrant(a) = 2 -> 0 [] Quadrant(a) = 3 -> -1
CosQ(a) == CASE Quadrant(a) = 0 -> 1 [] Quadrant(a) = 1 -> 0
             [] Quadrant(a) = 2 -> -1 [] Quadrant(a) = 3 -> 0

Sph(r, phi, theta) == [radius |-> r, phi |-> phi, theta |-> theta]

\* Vector3.setFromSpherical (l.2510, l.3894):
\*   x = r sin(phi) sin(theta), y = r cos(phi), z = r sin(phi) cos(theta)
\* defined for the angles whose sines and cosines are rational
setFromSpherical(s) ==
  CASE OnAxes(s.phi) /\ OnAxes(s.theta) ->
    << RMul(s.radius, Num(SinQ(s.phi) * SinQ(s.theta))),
       RMul(s.radius, Num(CosQ(s.phi))),
       RMul(s.radius, Num(SinQ(s.phi) * CosQ(s.theta))) >>

\* Spherical.setFromVector3 (l.2489, l.3869):
\*   radius = |v|; radius = 0 -> theta = phi = 0;
\*   otherwise theta = atan2(x, z), phi = acos(clamp(y / radius, -1, 1))
\* defined for the vectors along one axis, whose length and angles are rational
setFromVector3(v) ==
  LET x == v[1]  y == v[2]  z == v[3]
      zero == Num(0)
  IN  CASE x = zero /\ y = zero /\ z = zero -> Sph(zero, zero, zero)
        [] x = zero /\ z = zero /\ RLt(zero, y) -> Sph(y, zero, zero)
        [] x = zero /\ z = zero /\ RLt(y, zero) -> Sph(RNeg(y), Num(1), zero)
        [] y = zero /\ z = zero /\ RLt(zero, x) -> Sph(x, Rat(1, 2), Rat(1, 2))
        [] y = zero /\ z = zero /\ RLt(x, zero) -> Sph(RNeg(x), Rat(1, 2), Rat(-1, 2))
        [] x = zero /\ y = zero /\ RLt(zero, z) -> Sph(z, Rat(1, 2), zero)
        [] x = zero /\ y = zero /\ RLt(z, zero) -> Sph(RNeg(z), Rat(1, 2), Num(1))

Snapshot(p, t) == [position |-> p, target |-> t]

(***************************************************************************)
(* The configuration the session is constructed from.                      *)
(***************************************************************************)
Option(v, p) == [value |-> v, price |-> p, visibility |-> EmptyMap]

defaultConfig ==
  [ chapters |-> <<
      [ id |-> "body", focus |-> "overview", visibility |-> EmptyMap,
        groups |-> <<
          [ id |-> "paint", options |-> << Option("red-paint", 500) >> ],
          [ id |-> "trim",  options |-> << Option("sport-trim", 0) >> ] >> ],
      [ id |-> "wheels", focus |-> "wheels", visibility |-> EmptyMap,
        groups |-> <<
          [ id |-> "wheel", options |-> << Option("big-wheels", 300),
                                           Option("small-wheels", 0) >> ] >> ] >>,
    pricingRules |-> EmptyMap,
    focusTargets |->
      [ k \in {"overview", "wheels"} |->
          IF k = "overview"
            THEN [radius |-> Num(5), polarDeg |-> Num(90), azimuthDeg |-> Num(0),
                  lookAt |-> Vec(0, 0, 0)]
            ELSE [radius |-> Num(3), polarDeg |-> Num(90), azimuthDeg |-> Num(90),
                  lookAt |-> Vec(0, 0, 0)] ] ]

\* What OrbitControls can report through onChange: camera position and target
OrbitPoses == { Snapshot(Vec(0, 0, 4), Vec(0, 0, 0)),
                Snapshot(Vec(2, 1, 0), Vec(0, 1, 0)) }

\* Frame times handed to useFrame, in seconds: 0.6 and 1.2
Deltas == { Rat(3, 5), Rat(6, 5) }

\* getBoundingClientRect of a chapter element: <<top, bottom>>
Rects == { <<20, 50>>, <<40, 70>> }
InnerHeights == { 100 }      \* window.innerHeight

(***************************************************************************)
(* Derived values (useMemo).                                               *)
(***************************************************************************)
ChapterById(id) == CHOOSE c \in Range(chapters) : c.id = id

\* l.3360-3367: chapters in chapterOrder, then the chapters the order misses
orderedChapters ==
  LET ids     == {c.id : c \in Range(chapters)}
      present == SelectSeq(chapterOrder, LAMBDA id : id \in ids)
      mapped  == [i \in 1..Len(present) |-> ChapterById(present[i])]
      missing == SelectSeq(chapters, LAMBDA c : c.id \notin Range(chapterOrder))
  IN  mapped \o missing

GroupsOf(chs)  == Flatten([i \in 1..Len(chs) |-> chs[i].groups])
OptionsOf(chs) == LET gs == GroupsOf(chs)
                  IN  Flatten([i \in 1..Len(gs) |-> gs[i].options])
OptionValues(g) == [i \in 1..Len(g.options) |-> g.options[i].value]

\* l.2409-2417
buildDefaultSelections(config) ==
  LET gs == GroupsOf(config.chapters)
  IN  [gid \in {g.id : g \in Range(gs)} |->
         LET g == CHOOSE x \in Range(gs) : x.id = gid
         IN  IF Len(g.options) > 0 THEN g.options[1].value ELSE ""]

\* currentSelections[group.id]; a missing key reads as undefined, falsy like ""
SelectedIn(currentSelections, gid) ==
  IF gid \in DOMAIN currentSelections THEN currentSelections[gid] ELSE ""

(***************************************************************************)
(* Pricing resolver.                                                       *)
(***************************************************************************)
\* l.3730-3750: the mount effect seeds every option's diagonal from option.price
InitPricingRules(config) ==
  LET opts == OptionsOf(config.chapters)
      vals == {o.value : o \in Range(opts)}
      prev == config.pricingRules
  IN  [v \in (DOMAIN prev) \cup vals |->
         LET row == IF v \in DOMAIN prev THEN prev[v] ELSE EmptyMap
             o   == CHOOSE x \in Range(opts) : x.value = v
         IN  IF v \in vals /\ v \notin DOMAIN row THEN MapPut(row, v, o.price) ELSE row]

\* l.3778-3788: the walk over the groups in canonical order; every group whose
\* selected value keys an entry of `rules` overwrites the price
RECURSIVE ApplyOverrides(_, _, _, _)
ApplyOverrides(gs, rules, currentSelections, price) ==
  IF Len(gs) = 0 THEN price
  ELSE LET selectedInGroup == SelectedIn(currentSelections, Head(gs).id)
           next == IF selectedInGroup /= "" /\ selectedInGroup \in DOMAIN rules
                     THEN rules[selectedInGroup] ELSE price
       IN  ApplyOverrides(Tail(gs), rules, currentSelections, next)

\* a resolver that takes any entry of the row as the base price when the
\* diagonal entry is missing
calculateOptionPriceFromAnyEntry(optionValue, currentSelections) ==
  IF optionValue \notin DOMAIN pricingRules THEN 0
  ELSE LET rules == pricingRules[optionValue]
           base  == IF optionValue \in DOMAIN rules THEN rules[optionValue]
                    ELSE IF DOMAIN rules /= {}
                      THEN rules[CHOOSE k \in DOMAIN rules : TRUE] ELSE 0
       IN  ApplyOverrides(GroupsOf(orderedChapters), rules, currentSelections, base)

\* l.3752-3793
calculateOptionPrice(optionValue, currentSelections) ==
  IF optionValue \notin DOMAIN pricingRules THEN 0
  ELSE LET rules == pricingRules[optionValue]
           base  == IF optionValue \in DOMAIN rules THEN rules[optionValue] ELSE 0
       IN  ApplyOverrides(GroupsOf(orderedChapters), rules, currentSelections, base)

RECURSIVE SumSelected(_, _)
SumSelected(gs, sel) ==
  IF Len(gs) = 0 THEN 0
  ELSE LET selected == SelectedIn(sel, Head(gs).id)
       IN  (IF selected /= "" THEN calculateOptionPrice(selected, sel) ELSE 0)
             + SumSelected(Tail(gs), sel)

\* a total that also counts the last option of the matrix, selected or not
totalPriceCountingLastOption ==
  LET opts == OptionsOf(orderedChapters)
  IN  SumSelected(GroupsOf(orderedChapters), selections)
        + calculateOptionPrice(opts[Len(opts)].value, selections)

\* a total that adds up the groups of the first chapter only
totalPriceOfFirstChapter ==
  SumSelected(GroupsOf(SubSeq(orderedChapters, 1, 1)), selections)

\* l.3795-3806
totalPrice == SumSelected(GroupsOf(orderedChapters), selections)

(***************************************************************************)
(* Camera orchestrator: HomeContent side.                                  *)
(***************************************************************************)
\* l.2397-2407
buildFocusTargets(configs) ==
  [k \in DOMAIN configs |->
     [radius  |-> configs[k].radius,
      polar   |-> degToRad(configs[k].polarDeg),
      azimuth |-> degToRad(configs[k].azimuthDeg),
      lookAt  |-> configs[k].lookAt]]

\* l.3376-3380: Some(chapter), or None when there is no chapter at all
activeChapter ==
  LET oc == orderedChapters
  IN  IF \E i \in 1..Len(oc) : oc[i].id = activeChapterId
        THEN Some(CHOOSE c \in Range(oc) : c.id = activeChapterId)
        ELSE IF Len(oc) > 0 THEN Some(oc[1]) ELSE None
activeFocusKey == IF IsSome(activeChapter) THEN The(activeChapter).focus ELSE ""

\* l.4263: the camera panel is rendered for an active chapter with a focus key
PanelVisible == IsSome(activeChapter) /\ activeFocusKey /= ""

\* l.3883-3902
deriveCameraFromFocus(focusKey) ==
  IF focusKey = "" \/ focusKey \notin DOMAIN focusTargetConfigs THEN None
  ELSE LET targetConfig == focusTargetConfigs[focusKey]
           offset == setFromSpherical(Sph(targetConfig.radius,
                                          degToRad(targetConfig.polarDeg),
                                          degToRad(targetConfig.azimuthDeg)))
       IN  Some(Snapshot(VAdd(targetConfig.lookAt, offset), targetConfig.lookAt))

\* a keep that stores the camera position as the look-at point
KeptTargetAtPosition(snap) ==
  LET s == setFromVector3(VSub(snap.position, snap.target))
  IN  [radius |-> s.radius, polarDeg |-> radToDeg(s.phi),
       azimuthDeg |-> radToDeg(s.theta), lookAt |-> snap.position]

\* l.3866-3877: the FocusTarget config handleKeepCurrentView stores for a snapshot
KeptTarget(snap) ==
  LET s == setFromVector3(VSub(snap.position, snap.target))
  IN  [radius |-> s.radius, polarDeg |-> radToDeg(s.phi),
       azimuthDeg |-> radToDeg(s.theta), lookAt |-> snap.target]

(***************************************************************************)
(* Camera orchestrator: the CameraRig.  Its refs as one record, and its    *)
(* two effects and its frame callback as functions on that record.         *)
(***************************************************************************)
rig == [spherical |-> spherical, transition |-> transition,
        lookAtCurrent |-> lookAtCurrent, lookAtTarget |-> lookAtTarget,
        prevFocusRef |-> prevFocusRef, prevResetRef |-> prevResetRef]

\* l.2434-2457: the refs of a rig mounted with these props
MountRig(f, targets, token) ==
  [spherical     |-> Sph(targets[f].radius, targets[f].polar, targets[f].azimuth),
   transition    |-> [start |-> Sph(Num(1), Num(0), Num(0)),
                      end |-> Sph(Num(1), Num(0), Num(0)),
                      duration |-> Num(1), progress |-> Num(1), active |-> FALSE],
   lookAtCurrent |-> targets[f].lookAt,
   lookAtTarget  |-> targets[f].lookAt,
   prevFocusRef  |-> f,
   prevResetRef  |-> token]

\* a start that continues from the end of the transition it supersedes
StartFromPreviousEnd(r, f, targets, orbit, token) ==
  IF orbit THEN r
  ELSE IF r.prevFocusRef = f /\ r.prevResetRef = token THEN r
  ELSE LET target == targets[f]
       IN  [r EXCEPT !.transition = [start    |-> r.transition.end,
                                     end      |-> Sph(target.radius, target.polar, target.azimuth),
                                     duration |-> Rat(6, 5),
                                     progress |-> Num(0),
                                     active   |-> TRUE],
                     !.lookAtTarget = target.lookAt,
                     !.prevFocusRef = f,
                     !.prevResetRef = token]

\* a start that does not compare the focus key and the reset token
StartTransitionAlways(r, f, targets, orbit, token) ==
  IF orbit THEN r
  ELSE LET target == targets[f]
       IN  [r EXCEPT !.transition = [start    |-> r.spherical,
                                     end      |-> Sph(target.radius, target.polar, target.azimuth),
                                     duration |-> Rat(6, 5),
                                     progress |-> Num(0),
                                     active   |-> TRUE],
                     !.lookAtTarget = target.lookAt,
                     !.prevFocusRef = f,
                     !.prevResetRef = token]

\* a start that leaves a transition alone that no frame has advanced yet
StartKeepsPending(r, f, targets, orbit, token) ==
  IF orbit THEN r
  ELSE IF r.prevFocusRef = f /\ r.prevResetRef = token THEN r
  ELSE IF r.transition.active /\ r.transition.progress = Num(0)
    THEN [r EXCEPT !.prevFocusRef = f, !.prevResetRef = token]
  ELSE LET target == targets[f]
       IN  [r EXCEPT !.transition = [start    |-> r.spherical,
                                     end      |-> Sph(target.radius, target.polar, target.azimuth),
                                     duration |-> Rat(6, 5),
                                     progress |-> Num(0),
                                     active   |-> TRUE],
                     !.lookAtTarget = target.lookAt,
                     !.prevFocusRef = f,
                     !.prevResetRef = token]

\* l.2463-2479
StartTransitionEffect(r, f, targets, orbit, token) ==
  IF orbit THEN r
  ELSE IF r.prevFocusRef = f /\ r.prevResetRef = token THEN r
  ELSE LET target == targets[f]
       IN  [r EXCEPT !.transition = [start    |-> r.spherical,
                                     end      |-> Sph(target.radius, target.polar, target.azimuth),
                                     duration |-> Rat(6, 5),
                                     progress |-> Num(0),
                                     active   |-> TRUE],
                     !.lookAtTarget = target.lookAt,
                     !.prevFocusRef = f,
                     !.prevResetRef = token]

\* a rig that ignores the manual state
NoManualStateEffect(r, manualState, orbit) == r

\* l.2481-2491
ManualStateEffect(r, manualState, orbit) ==
  IF orbit THEN r
  ELSE IF manualState = None THEN r
  ELSE LET m == The(manualState)
       IN  [r EXCEPT !.lookAtCurrent = m.target,
                     !.lookAtTarget  = m.target,
                     !.spherical     = setFromVector3(VSub(m.position, m.target)),
                     !.transition.active = FALSE]

\* a frame callback that interpolates whether or not a transition is active
AdvanceAlways(r, delta) ==
  LET tween    == r.transition
      progress == RMin(RAdd(tween.progress, RDiv(delta, tween.duration)), Num(1))
      eased    == easeOutCubic(progress)
      moved    == [r EXCEPT
                     !.transition.progress = progress,
                     !.spherical = Sph(lerp(tween.start.radius, tween.end.radius, eased),
                                       lerp(tween.start.phi, tween.end.phi, eased),
                                       lerp(tween.start.theta, tween.end.theta, eased)),
                     !.transition.active = (progress /= Num(1))]
  IN  [moved EXCEPT !.lookAtCurrent = VLerp(r.lookAtCurrent, r.lookAtTarget, Rat(2, 25))]

\* a frame callback that adds delta / duration to progress without a cap
AdvanceUnclamped(r, delta) ==
  LET tween    == r.transition
      progress == RAdd(tween.progress, RDiv(delta, tween.duration))
      eased    == easeOutCubic(progress)
      moved    == IF tween.active
                    THEN [r EXCEPT
                            !.transition.progress = progress,
                            !.spherical = Sph(lerp(tween.start.radius, tween.end.radius, eased),
                                              lerp(tween.start.phi, tween.end.phi, eased),
                                              lerp(tween.start.theta, tween.end.theta, eased)),
                            !.transition.active = (progress /= Num(1))]
                    ELSE r
  IN  [moved EXCEPT !.lookAtCurrent = VLerp(r.lookAtCurrent, r.lookAtTarget, Rat(2, 25))]

\* a frame callback that never clears active
AdvanceStaysActive(r, delta) ==
  LET tween    == r.transition
      progress == RMin(RAdd(tween.progress, RDiv(delta, tween.duration)), Num(1))
      eased    == easeOutCubic(progress)
      moved    == IF tween.active
                    THEN [r EXCEPT
                            !.transition.progress = progress,
                            !.spherical = Sph(lerp(tween.start.radius, tween.end.radius, eased),
                                              lerp(tween.start.phi, tween.end.phi, eased),
                                              lerp(tween.start.theta, tween.end.theta, eased))]
                    ELSE r
  IN  [moved EXCEPT !.lookAtCurrent = VLerp(r.lookAtCurrent, r.lookAtTarget, Rat(2, 25))]

\* l.2493-2513
Advance(r, delta) ==
  LET tween    == r.transition
      progress == RMin(RAdd(tween.progress, RDiv(delta, tween.duration)), Num(1))
      eased    == easeOutCubic(progress)
      moved    == IF tween.active
                    THEN [r EXCEPT
                            !.transition.progress = progress,
                            !.spherical = Sph(lerp(tween.start.radius, tween.end.radius, eased),
                                              lerp(tween.start.phi, tween.end.phi, eased),
                                              lerp(tween.start.theta, tween.end.theta, eased)),
                            !.transition.active = (progress /= Num(1))]
                    ELSE r
  IN  [moved EXCEPT !.lookAtCurrent = VLerp(r.lookAtCurrent, r.lookAtTarget, Rat(2, 25))]

\* The effects of one commit, in declaration order.  An effect runs when one
\* of its dependencies changed: [focus, focusTargets, orbitEnabled, resetToken]
\* for the first, [manualState, orbitEnabled] for the second.
RigAfterCommit(r, f, configs, orbit, manualState, token) ==
  LET r1 == IF <<f, configs, orbit, token>>
                 /= <<focus, focusTargetConfigs, orbitEnabled, resetCameraToken>>
              THEN StartTransitionEffect(r, f, buildFocusTargets(configs), orbit, token)
              ELSE r
  IN  IF <<manualState, orbit>> /= <<orbitCameraState, orbitEnabled>>
        THEN ManualStateEffect(r1, manualState, orbit)
        ELSE r1

AtRest(r) == ~r.transition.active /\ r.lookAtCurrent = r.lookAtTarget

\* l.2510-2512: the pose the frame callback hands to the scene camera
CameraPose(r) == Snapshot(VAdd(setFromSpherical(r.spherical), r.lookAtCurrent),
                          r.lookAtCurrent)

(***************************************************************************)
(* Initial state: HomeContent constructed from defaultConfig, the mount    *)
(* effects done, the CameraRig mounted.                                    *)
(***************************************************************************)
\* l.3340-3344
defaultFocus(chs, configs) ==
  IF Len(chs) > 0 THEN chs[1].focus
  ELSE IF DOMAIN configs /= {} THEN CHOOSE k \in DOMAIN configs : TRUE
  ELSE "overview"

SetRig(r) ==
  /\ spherical' = r.spherical
  /\ transition' = r.transition
  /\ lookAtCurrent' = r.lookAtCurrent
  /\ lookAtTarget' = r.lookAtTarget
  /\ prevFocusRef' = r.prevFocusRef
  /\ prevResetRef' = r.prevResetRef

InitFrom(config) ==
  /\ chapters = config.chapters
  /\ chapterOrder = [i \in 1..Len(config.chapters) |-> config.chapters[i].id]
  /\ selections = buildDefaultSelections(config)
  /\ pricingRules = InitPricingRules(config)
  /\ focusTargetConfigs = config.focusTargets
  /\ activeChapterId = IF Len(config.chapters) > 0 THEN config.chapters[1].id ELSE ""
  /\ focus = defaultFocus(config.chapters, config.focusTargets)
  /\ focusRef = defaultFocus(config.chapters, config.focusTargets)
  /\ orbitEnabled = FALSE
  /\ orbitCameraState = None
  /\ preOrbitCameraState = None
  /\ resetCameraToken = 0
  /\ LET r == MountRig(defaultFocus(config.chapters, config.focusTargets),
                       buildFocusTargets(config.focusTargets), 0)
     IN  /\ spherical = r.spherical
         /\ transition = r.transition
         /\ lookAtCurrent = r.lookAtCurrent
         /\ lookAtTarget = r.lookAtTarget
         /\ prevFocusRef = r.prevFocusRef
         /\ prevResetRef = r.prevResetRef
  /\ crashed = FALSE
  /\ frames = 0
  /\ priceEdits = 0

Init == InitFrom(defaultConfig)

(***************************************************************************)
(* One commit of HomeContent as seen by the CameraRig: the new props, then *)
(* the rig's render and effects.  Rendering the rig reads                  *)
(* focusTargets[focus] (l.2434-2439), which throws when the key is absent. *)
(***************************************************************************)
CommitCamera(f, configs, orbit, manualState, token) ==
  /\ focus' = f
  /\ focusTargetConfigs' = configs
  /\ orbitEnabled' = orbit
  /\ orbitCameraState' = manualState
  /\ resetCameraToken' = token
  /\ IF f \in DOMAIN configs
       THEN LET r == RigAfterCommit(rig, f, configs, orbit, manualState, token)
            IN  /\ SetRig(r)
                /\ crashed' = FALSE
                /\ frames' = IF AtRest(r) THEN 0 ELSE frames
       ELSE /\ UNCHANGED <<spherical, transition, lookAtCurrent, lookAtTarget,
                           prevFocusRef, prevResetRef, frames>>
            /\ crashed' = TRUE

(***************************************************************************)
(* Camera events.                                                          *)
(***************************************************************************)
\* l.4276-4288: the "Change camera" button
orbitEntered ==
  /\ ~crashed /\ PanelVisible /\ ~orbitEnabled
  /\ LET snapshot == IF IsSome(orbitCameraState) THEN orbitCameraState
                     ELSE IF IsSome(preOrbitCameraState) THEN preOrbitCameraState
                     ELSE deriveCameraFromFocus(activeFocusKey)
     IN  /\ preOrbitCameraState' = snapshot
         /\ CommitCamera(focus, focusTargetConfigs, TRUE,
                         IF IsSome(snapshot) THEN snapshot ELSE orbitCameraState,
                         resetCameraToken)
  /\ UNCHANGED <<chapters, chapterOrder, selections, pricingRules, activeChapterId,
                 focusRef, priceEdits>>

\* an orbit camera report that also moves the pre-orbit reference
handleOrbitChangeMovingReference(pose) ==
  /\ ~crashed /\ orbitEnabled
  /\ preOrbitCameraState' = Some(pose)
  /\ CommitCamera(focus, focusTargetConfigs, orbitEnabled, Some(pose), resetCameraToken)
  /\ UNCHANGED <<chapters, chapterOrder, selections, pricingRules, activeChapterId,
                 focusRef, priceEdits>>

\* l.2927-2933, l.4419: OrbitControls reports the camera it drives
handleOrbitChange(pose) ==
  /\ ~crashed /\ orbitEnabled
  /\ CommitCamera(focus, focusTargetConfigs, orbitEnabled, Some(pose), resetCameraToken)
  /\ UNCHANGED <<chapters, chapterOrder, selections, pricingRules, activeChapterId,
                 focusRef, preOrbitCameraState, priceEdits>>

\* l.4327-4335: the "Reset" button
resetFromOrbit ==
  /\ ~crashed /\ PanelVisible /\ orbitEnabled
  /\ resetCameraToken < MaxResets
  /\ LET derived  == deriveCameraFromFocus(activeFocusKey)
         snapshot == IF IsSome(preOrbitCameraState) THEN preOrbitCameraState
                     ELSE IF IsSome(derived) THEN derived
                     ELSE orbitCameraState
     IN  CommitCamera(focus, focusTargetConfigs, FALSE, snapshot, resetCameraToken + 1)
  /\ UNCHANGED <<chapters, chapterOrder, selections, pricingRules, activeChapterId,
                 focusRef, preOrbitCameraState, priceEdits>>

\* a keep callback whose early return looks at the focus key only
KeepCurrentViewIgnoringSnapshot ==
  /\ ~crashed
  /\ IF activeFocusKey = ""
       THEN UNCHANGED <<cameraVars, rigVars, focusTargetConfigs>>
       ELSE /\ CommitCamera(activeFocusKey,
                            IF orbitCameraState = None THEN focusTargetConfigs
                            ELSE MapPut(focusTargetConfigs, activeFocusKey,
                                        KeptTarget(The(orbitCameraState))),
                            FALSE, orbitCameraState, resetCameraToken)
            /\ UNCHANGED <<focusRef, preOrbitCameraState>>
  /\ UNCHANGED <<chapters, chapterOrder, selections, pricingRules, activeChapterId,
                 priceEdits>>

\* l.3864-3881: the callback handleKeepCurrentView, whoever invokes it
KeepCurrentView ==
  /\ ~crashed
  /\ IF activeFocusKey = "" \/ orbitCameraState = None
       THEN UNCHANGED <<cameraVars, rigVars, focusTargetConfigs>>
       ELSE /\ CommitCamera(activeFocusKey,
                            MapPut(focusTargetConfigs, activeFocusKey,
                                   KeptTarget(The(orbitCameraState))),
                            FALSE, orbitCameraState, resetCameraToken)
            /\ UNCHANGED <<focusRef, preOrbitCameraState>>
  /\ UNCHANGED <<chapters, chapterOrder, selections, pricingRules, activeChapterId,
                 priceEdits>>

\* l.3864-3881, l.4340-4351: the "Keep this view" button
handleKeepCurrentView ==
  /\ PanelVisible /\ orbitEnabled
  /\ KeepCurrentView

\* a loop in which a later chapter replaces an earlier one when as near
RECURSIVE NearestLastOfTies(_, _, _, _, _)
NearestLastOfTies(chs, rects, markerY2, best, bestDist) ==
  IF Len(chs) = 0 THEN best
  ELSE LET rect  == rects[Head(chs).id]
           dist2 == Abs((rect[1] + rect[2]) - markerY2)
       IN  IF bestDist < 0 \/ dist2 <= bestDist
             THEN NearestLastOfTies(Tail(chs), rects, markerY2, Some(Head(chs)), dist2)
             ELSE NearestLastOfTies(Tail(chs), rects, markerY2, best, bestDist)

\* l.4018-4045: the chapter whose extent midpoint is nearest to the marker;
\* a later chapter replaces an earlier one only when strictly nearer
RECURSIVE Nearest(_, _, _, _, _)
Nearest(chs, rects, markerY2, best, bestDist) ==
  IF Len(chs) = 0 THEN best
  ELSE LET rect  == rects[Head(chs).id]
           dist2 == Abs((rect[1] + rect[2]) - markerY2)
       IN  IF bestDist < 0 \/ dist2 < bestDist
             THEN Nearest(Tail(chs), rects, markerY2, Some(Head(chs)), dist2)
             ELSE Nearest(Tail(chs), rects, markerY2, best, bestDist)

\* l.4015-4064; distances are kept doubled: |(top + bottom) - 2 * 0.35 * innerHeight|
handleScroll(rects, innerHeight) ==
  /\ ~crashed /\ Len(orderedChapters) > 0
  /\ LET near == Nearest(orderedChapters, rects, (7 * innerHeight) \div 10, None, -1)
         nextFocus == The(near).focus
         nextChapterId == The(near).id
     IN  /\ activeChapterId' = IF nextChapterId /= "" THEN nextChapterId
                               ELSE activeChapterId
         /\ IF nextFocus /= "" /\ nextFocus /= focusRef
              THEN /\ focusRef' = nextFocus
                   /\ CommitCamera(nextFocus, focusTargetConfigs, orbitEnabled,
                                   orbitCameraState, resetCameraToken)
              ELSE UNCHANGED <<cameraVars, rigVars, focusTargetConfigs>>
  /\ UNCHANGED <<chapters, chapterOrder, selections, pricingRules,
                 preOrbitCameraState, priceEdits>>

\* a frame that advances the rig in Orbit as it does in Scripted
useFrameInOrbit(delta) ==
  /\ ~crashed
  /\ frames < MaxFrames
  /\ LET r == Advance(rig, delta)
     IN  /\ SetRig(r)
         /\ frames' = IF AtRest(r) THEN 0 ELSE frames + 1
  /\ UNCHANGED crashed
  /\ UNCHANGED <<configVars, cameraVars, priceEdits>>

\* l.2493-2513: one displayed frame
useFrame(delta) ==
  /\ ~crashed
  /\ IF orbitEnabled
       THEN UNCHANGED rigVars
       ELSE /\ frames < MaxFrames
            /\ LET r == Advance(rig, delta)
               IN  /\ SetRig(r)
                   /\ frames' = IF AtRest(r) THEN 0 ELSE frames + 1
            /\ UNCHANGED crashed
  /\ UNCHANGED <<configVars, cameraVars, priceEdits>>

(***************************************************************************)
(* Selection store and configuration edits.                                *)
(***************************************************************************)
\* Identifiers Math.random() can hand out (l.3324, l.3470, l.3566, l.3609)
NewChapterIds   == { "chapter-a" }
NewGroupIds     == { "group-a" }
NewOptionValues == { "option-a", "option-b" }

AllGroups == GroupsOf(chapters)
GroupIds  == {g.id : g \in Range(AllGroups)}
UsedValues == {o.value : o \in Range(OptionsOf(chapters))}

\* the (chapter id, group id) pairs the chapter list renders (l.3218)
Places == UNION {{<<c.id, g.id>> : g \in Range(c.groups)} : c \in Range(chapters)}
GroupAt(chapterId, groupId) ==
  CHOOSE g \in Range(ChapterById(chapterId).groups) : g.id = groupId

\* l.3539-3558; next is what the updater returns for the group's options
updateGroupOptions(chs, chapterId, groupId, next) ==
  [i \in 1..Len(chs) |->
     IF chs[i].id /= chapterId THEN chs[i]
     ELSE [chs[i] EXCEPT !.groups =
             [j \in 1..Len(chs[i].groups) |->
                IF chs[i].groups[j].id = groupId
                  THEN [chs[i].groups[j] EXCEPT !.options = next]
                  ELSE chs[i].groups[j]]]]

\* a selection change that overwrites the selection of every group
onChangeSelectionOfAll(groupId, value) ==
  /\ ~crashed
  /\ selections' = [k \in (DOMAIN selections) \cup {groupId} |-> value]
  /\ UNCHANGED <<chapters, chapterOrder, pricingRules, focusTargetConfigs,
                 activeChapterId, cameraVars, rigVars, priceEdits>>

\* l.4131-4135, l.2860: a radio button of a rendered option of a rendered group
onChangeSelection(groupId, value) ==
  /\ ~crashed
  /\ selections' = MapPut(selections, groupId, value)
  /\ UNCHANGED <<chapters, chapterOrder, pricingRules, focusTargetConfigs,
                 activeChapterId, cameraVars, rigVars, priceEdits>>

\* l.3560-3583
handleAddGroup(chapterId, newGroupId, newValue) ==
  /\ ~crashed
  /\ LET newGroup == [id |-> newGroupId, options |-> << Option(newValue, 0) >>]
     IN  chapters' = [i \in 1..Len(chapters) |->
                        IF chapters[i].id = chapterId
                          THEN [chapters[i] EXCEPT !.groups = Append(@, newGroup)]
                          ELSE chapters[i]]
  /\ selections' = MapPut(selections, newGroupId, newValue)
  /\ UNCHANGED <<chapterOrder, pricingRules, focusTargetConfigs, activeChapterId,
                 cameraVars, rigVars, priceEdits>>

\* l.3585-3602
handleDeleteGroup(chapterId, groupId) ==
  /\ ~crashed
  /\ chapters' = [i \in 1..Len(chapters) |->
                    IF chapters[i].id = chapterId
                      THEN [chapters[i] EXCEPT
                              !.groups = SelectSeq(@, LAMBDA g : g.id /= groupId)]
                      ELSE chapters[i]]
  /\ selections' = MapDel(selections, groupId)
  /\ UNCHANGED <<chapterOrder, pricingRules, focusTargetConfigs, activeChapterId,
                 cameraVars, rigVars, priceEdits>>

\* l.3604-3615
handleAddOption(chapterId, groupId, newValue) ==
  /\ ~crashed
  /\ chapters' = updateGroupOptions(chapters, chapterId, groupId,
                                    Append(GroupAt(chapterId, groupId).options,
                                           Option(newValue, 0)))
  /\ UNCHANGED <<chapterOrder, selections, pricingRules, focusTargetConfigs,
                 activeChapterId, cameraVars, rigVars, priceEdits>>

\* l.3667: the options the delete leaves in the group
RemainingOptions(options, optionValue) ==
  SelectSeq(options, LAMBDA opt : opt.value /= optionValue)

\* a delete that leaves the stored selection as it was
SelectionKeptAfterDelete(current, remainingOptions, optionValue) == current

\* a delete that moves the selection to the last option left in the group
SelectionLastAfterDelete(current, remainingOptions, optionValue) ==
  IF current /= optionValue THEN current
  ELSE IF Len(remainingOptions) > 0
    THEN remainingOptions[Len(remainingOptions)].value ELSE ""

\* l.3671-3678: the selection of the group after the delete
SelectionAfterDelete(current, remainingOptions, optionValue) ==
  IF current /= optionValue THEN current
  ELSE IF Len(remainingOptions) > 0 THEN remainingOptions[1].value ELSE ""

\* l.3663-3681
handleDeleteOption(chapterId, groupId, optionValue) ==
  /\ ~crashed
  /\ LET remainingOptions == RemainingOptions(GroupAt(chapterId, groupId).options,
                                              optionValue)
     IN  /\ chapters' = updateGroupOptions(chapters, chapterId, groupId,
                                           remainingOptions)
         /\ selections' =
              IF groupId \in DOMAIN selections /\ selections[groupId] = optionValue
                THEN MapPut(selections, groupId,
                            SelectionAfterDelete(selections[groupId], remainingOptions,
                                                 optionValue))
                ELSE selections
  /\ UNCHANGED <<chapterOrder, pricingRules, focusTargetConfigs, activeChapterId,
                 cameraVars, rigVars, priceEdits>>

\* l.3683-3701: label and description change, value and selection stay
handleEditOption(chapterId, groupId, originalValue) ==
  /\ ~crashed
  /\ chapters' = updateGroupOptions(chapters, chapterId, groupId,
                                    GroupAt(chapterId, groupId).options)
  /\ selections' = IF groupId \in DOMAIN selections /\ selections[groupId] = originalValue
                     THEN MapPut(selections, groupId, originalValue)
                     ELSE selections
  /\ UNCHANGED <<chapterOrder, pricingRules, focusTargetConfigs, activeChapterId,
                 cameraVars, rigVars, priceEdits>>

\* l.3469-3501
addChapter(newId) ==
  /\ ~crashed
  /\ chapters' = Append(chapters, [id |-> newId, focus |-> newId,
                                   visibility |-> EmptyMap, groups |-> <<>>])
  /\ chapterOrder' = Append(chapterOrder, newId)
  /\ activeChapterId' = newId
  /\ CommitCamera(focus,
                  MapPut(focusTargetConfigs, newId,
                         [radius |-> Num(5), polarDeg |-> Num(60),
                          azimuthDeg |-> Num(30), lookAt |-> Vec(0, 0, 0)]),
                  orbitEnabled, orbitCameraState, resetCameraToken)
  /\ UNCHANGED <<selections, pricingRules, focusRef, preOrbitCameraState, priceEdits>>

\* a chapter delete that leaves the selections of its groups behind
deleteChapterKeepingSelections(chapterId) ==
  /\ ~crashed
  /\ chapters' = SelectSeq(chapters, LAMBDA chapter : chapter.id /= chapterId)
  /\ chapterOrder' = SelectSeq(chapterOrder, LAMBDA id : id /= chapterId)
  /\ activeChapterId' =
       IF activeChapterId /= chapterId THEN activeChapterId
       ELSE LET rest == SelectSeq(chapterOrder, LAMBDA id : id /= chapterId)
            IN  IF Len(rest) > 0 THEN rest[1] ELSE ""
  /\ CommitCamera(focus, MapDel(focusTargetConfigs, chapterId),
                  orbitEnabled, orbitCameraState, resetCameraToken)
  /\ UNCHANGED <<selections, pricingRules, focusRef, preOrbitCameraState, priceEdits>>

\* a chapter delete that leaves the active chapter id alone
deleteChapterKeepingActive(chapterId) ==
  /\ ~crashed
  /\ chapters' = SelectSeq(chapters, LAMBDA chapter : chapter.id /= chapterId)
  /\ chapterOrder' = SelectSeq(chapterOrder, LAMBDA id : id /= chapterId)
  /\ LET gone == {g.id : g \in Range(ChapterById(chapterId).groups)}
     IN  selections' = [k \in (DOMAIN selections) \ gone |-> selections[k]]
  /\ activeChapterId' = activeChapterId
  /\ CommitCamera(focus, MapDel(focusTargetConfigs, chapterId),
                  orbitEnabled, orbitCameraState, resetCameraToken)
  /\ UNCHANGED <<pricingRules, focusRef, preOrbitCameraState, priceEdits>>

\* a chapter delete that leaves the chapter's id in the chapter order
deleteChapterKeepingOrder(chapterId) ==
  /\ ~crashed
  /\ chapters' = SelectSeq(chapters, LAMBDA chapter : chapter.id /= chapterId)
  /\ chapterOrder' = chapterOrder
  /\ LET gone == {g.id : g \in Range(ChapterById(chapterId).groups)}
     IN  selections' = [k \in (DOMAIN selections) \ gone |-> selections[k]]
  /\ activeChapterId' =
       IF activeChapterId /= chapterId THEN activeChapterId
       ELSE LET rest == SelectSeq(chapterOrder, LAMBDA id : id /= chapterId)
            IN  IF Len(rest) > 0 THEN rest[1] ELSE ""
  /\ CommitCamera(focus, MapDel(focusTargetConfigs, chapterId),
                  orbitEnabled, orbitCameraState, resetCameraToken)
  /\ UNCHANGED <<pricingRules, focusRef, preOrbitCameraState, priceEdits>>

\* l.3503-3537
deleteChapter(chapterId) ==
  /\ ~crashed
  /\ chapters' = SelectSeq(chapters, LAMBDA chapter : chapter.id /= chapterId)
  /\ chapterOrder' = SelectSeq(chapterOrder, LAMBDA id : id /= chapterId)
  /\ LET gone == {g.id : g \in Range(ChapterById(chapterId).groups)}
     IN  selections' = [k \in (DOMAIN selections) \ gone |-> selections[k]]
  /\ activeChapterId' =
       IF activeChapterId /= chapterId THEN activeChapterId
       ELSE LET rest == SelectSeq(chapterOrder, LAMBDA id : id /= chapterId)
            IN  IF Len(rest) > 0 THEN rest[1] ELSE ""
  /\ CommitCamera(focus, MapDel(focusTargetConfigs, chapterId),
                  orbitEnabled, orbitCameraState, resetCameraToken)
  /\ UNCHANGED <<pricingRules, focusRef, preOrbitCameraState, priceEdits>>

EditNext ==
  \/ \E p \in Places : \E v \in Range(OptionValues(GroupAt(p[1], p[2]))) :
       onChangeSelection(p[2], v)
  \/ \E c \in Range(chapters), g \in NewGroupIds \ GroupIds,
        v \in NewOptionValues \ UsedValues : handleAddGroup(c.id, g, v)
  \/ \E p \in Places : handleDeleteGroup(p[1], p[2])
  \/ \E p \in Places, v \in NewOptionValues \ UsedValues : handleAddOption(p[1], p[2], v)
  \/ \E p \in Places : \E v \in Range(OptionValues(GroupAt(p[1], p[2]))) :
       handleDeleteOption(p[1], p[2], v)
  \/ \E p \in Places : \E v \in Range(OptionValues(GroupAt(p[1], p[2]))) :
       handleEditOption(p[1], p[2], v)
  \/ \E id \in NewChapterIds \ {c.id : c \in Range(chapters)} : addChapter(id)
  \/ \E c \in Range(chapters) : deleteChapter(c.id)

EditSpec == Init /\ [][EditNext]_vars

(***************************************************************************)
(* Properties of the selection store.                                      *)
(***************************************************************************)
\* C1: for every group of the configuration, the stored selection is the
\* empty string or the value of an option the group currently has.
C1_SelectionInvariant ==
  \A g \in Range(AllGroups) :
    \/ SelectedIn(selections, g.id) = ""
    \/ SelectedIn(selections, g.id) \in Range(OptionValues(g))

\* the selected big-wheels was deleted and the selection moved to the option
\* left in the group; an added group lost its only option and selects ""
C1_Witness ==
  /\ \E g \in Range(AllGroups) :
       /\ g.id = "wheel"
       /\ OptionValues(g) = << "small-wheels" >>
       /\ selections["wheel"] = "small-wheels"
  /\ \E g \in Range(AllGroups) :
       /\ g.id \in NewGroupIds
       /\ Len(g.options) = 0
       /\ selections[g.id] = ""

(***************************************************************************)
(* Pricing matrix edits and chapter reordering.                            *)
(***************************************************************************)
\* what the number input of a matrix cell can hold; None is the emptied input
Prices == { 400, 500 }

\* PricingMatrix.tsx l.27-49: the options in canonical order, rows and columns
allOptions == LET opts == OptionsOf(orderedChapters)
              IN  [i \in 1..Len(opts) |-> opts[i].value]

\* a matrix with every cell enabled
isEditableEverywhere(rowId, colId) == TRUE

\* PricingMatrix.tsx l.139-145: the diagonal and the lower-left triangle
isEditable(rowId, colId) ==
  rowId = colId \/ IndexOf(allOptions, colId) < IndexOf(allOptions, rowId)

\* l.3830-3844
handleUpdatePrice(targetId, dependencyId, price) ==
  /\ ~crashed
  /\ priceEdits < MaxPriceEdits
  /\ priceEdits' = priceEdits + 1
  /\ LET row == IF targetId \in DOMAIN pricingRules THEN pricingRules[targetId]
                ELSE EmptyMap
     IN  pricingRules' = MapPut(pricingRules, targetId,
                                IF price = None THEN MapDel(row, dependencyId)
                                ELSE MapPut(row, dependencyId, The(price)))
  /\ UNCHANGED <<chapters, chapterOrder, selections, focusTargetConfigs,
                 activeChapterId, cameraVars, rigVars>>

\* Array.prototype.splice(fromIndex, 1) then splice(toIndex, 0, removed), 1-based
Splice(seq, fromIndex, toIndex) ==
  LET removed == seq[fromIndex]
      rest    == [i \in 1..(Len(seq) - 1) |-> IF i < fromIndex THEN seq[i] ELSE seq[i + 1]]
  IN  [i \in 1..Len(seq) |->
         IF i < toIndex THEN rest[i] ELSE IF i = toIndex THEN removed ELSE rest[i - 1]]

\* l.3460-3467, l.3152-3182: the "Move Up" and "Move Down" buttons
moveChapter(fromIndex, toIndex) ==
  /\ ~crashed
  /\ chapterOrder' = Splice(chapterOrder, fromIndex, toIndex)
  /\ UNCHANGED <<chapters, selections, pricingRules, focusTargetConfigs,
                 activeChapterId, cameraVars, rigVars, priceEdits>>

PricingNext ==
  \/ \E p \in Places : \E v \in Range(OptionValues(GroupAt(p[1], p[2]))) :
       onChangeSelection(p[2], v)
  \/ /\ priceEdits < MaxPriceEdits
     /\ \E t \in Range(allOptions), d \in Range(allOptions) :
          /\ isEditable(t, d)
          /\ \E price \in {None} \cup {Some(n) : n \in Prices} :
               handleUpdatePrice(t, d, price)
  \/ \E i \in 1..Len(chapterOrder), j \in 1..Len(chapterOrder) :
       (j = i - 1 \/ j = i + 1) /\ moveChapter(i, j)

PricingSpec == Init /\ [][PricingNext]_vars

(***************************************************************************)
(* Properties of the pricing resolver.                                     *)
(***************************************************************************)
\* C2: with paint before wheel, rules red-paint: {red-paint: 500} and
\* big-wheels: {big-wheels: 300, red-paint: 400}, and both selected, the price
\* of big-wheels resolves to 400 and the total is 900.
C2_OverrideFires ==
  (/\ chapterOrder = << "body", "wheels" >>
   /\ pricingRules["red-paint"] = [k \in {"red-paint"} |-> 500]
   /\ pricingRules["big-wheels"] =
        [k \in {"big-wheels", "red-paint"} |-> IF k = "big-wheels" THEN 300 ELSE 400]
   /\ selections["paint"] = "red-paint"
   /\ selections["wheel"] = "big-wheels")
  => /\ calculateOptionPrice("big-wheels", selections) = 400
     /\ totalPrice = 900

\* the groups, in canonical order, whose selected value is an option other
\* than the target that keys an entry of the target's rules
SelectedDependencies(target) ==
  SelectSeq(GroupsOf(orderedChapters),
            LAMBDA g : /\ SelectedIn(selections, g.id) /= ""
                       /\ SelectedIn(selections, g.id) /= target
                       /\ SelectedIn(selections, g.id) \in DOMAIN pricingRules[target])

\* C3: an option with overrides keyed by two or more selected dependencies
\* resolves to the override of the dependency whose group is last in the
\* canonical chapter and group order.
C3_LatestDependencyWins ==
  \A target \in Range(allOptions) :
    LET deps == SelectedDependencies(target)
    IN  (target \in DOMAIN pricingRules /\ Len(deps) >= 2) =>
          calculateOptionPrice(target, selections) =
            pricingRules[target][SelectedIn(selections, deps[Len(deps)].id)]

CameraNext ==
  \/ orbitEntered
  \/ \E pose \in OrbitPoses : handleOrbitChange(pose)
  \/ resetFromOrbit
  \/ handleKeepCurrentView
  \/ \E rects \in [{c.id : c \in Range(chapters)} -> Rects], h \in InnerHeights :
       handleScroll(rects, h)
  \/ \E delta \in Deltas : useFrame(delta)

CameraSpec == Init /\ [][CameraNext]_vars

\* The scripted camera while the chapter list is edited: no Orbit session
ScriptedNext ==
  \/ \E rects \in [{c.id : c \in Range(chapters)} -> Rects], h \in InnerHeights :
       handleScroll(rects, h)
  \/ \E delta \in Deltas : useFrame(delta)
  \/ \E id \in NewChapterIds \ {c.id : c \in Range(chapters)} : addChapter(id)
  \/ \E c \in Range(chapters) : deleteChapter(c.id)

ScriptedSpec == Init /\ [][ScriptedNext]_vars

(***************************************************************************)
(* Properties of the camera orchestrator.                                  *)
(***************************************************************************)
\* a step of the frame callback
IsAdvance == \E delta \in Deltas : useFrame(delta)

\* a step in which the first effect of the rig started a transition: only
\* then does it record the focus key and the reset token (l.2477-2478)
TransitionStarted ==
  <<prevFocusRef', prevResetRef'>> /= <<prevFocusRef, prevResetRef>>

\* the rig r shows the camera at snap: position and look-at point
PoseIs(r, snap) ==
  /\ OnAxes(r.spherical.phi) /\ OnAxes(r.spherical.theta)
  /\ CameraPose(r) = snap

\* the spherical coordinates a FocusTarget config stands for
TargetSpherical(t) == Sph(t.radius, degToRad(t.polarDeg), degToRad(t.azimuthDeg))

\* C4: resetFromOrbit increments the reset token and leaves the rig in
\* Scripted with a fresh transition active at progress 0.
C4_ResetStartsTransition ==
  [][resetFromOrbit =>
       /\ resetCameraToken' = resetCameraToken + 1
       /\ ~orbitEnabled'
       /\ transition'.active
       /\ transition'.progress = Num(0)]_vars

\* C5: resetFromOrbit switches to Scripted and puts the camera at the stored
\* pre-orbit snapshot, or at the pose derived from the FocusTarget of the
\* active focus key when no pre-orbit snapshot is stored.
C5_ResetRestoresSnapshot ==
  [][resetFromOrbit =>
       LET snap == IF IsSome(preOrbitCameraState) THEN preOrbitCameraState
                   ELSE deriveCameraFromFocus(activeFocusKey)
       IN  /\ ~orbitEnabled'
           /\ IsSome(snap)
           /\ PoseIs(rig', The(snap))]_vars

\* Orbit was left by a reset to a stored snapshot that is not the pose of the
\* focus key's FocusTarget, and the camera shows that snapshot
C5_Witness ==
  /\ ~orbitEnabled /\ resetCameraToken > 0 /\ prevResetRef = resetCameraToken
  /\ transition.progress = Num(0)
  /\ IsSome(preOrbitCameraState)
  /\ preOrbitCameraState /= deriveCameraFromFocus(focus)
  /\ PoseIs(rig, The(preOrbitCameraState))

\* C6: keepCurrentView in Orbit with a live snapshot (position, target) stores,
\* for the active focus key, the spherical form of position - target with
\* lookAt = target, leaves every other FocusTarget alone, and leaves Orbit.
C6_KeepStoresSphericalForm ==
  [][(handleKeepCurrentView /\ IsSome(orbitCameraState) /\ activeFocusKey /= "") =>
       LET snap == The(orbitCameraState)
           kept == focusTargetConfigs'[activeFocusKey]
       IN  /\ kept.lookAt = snap.target
           /\ ~RLt(kept.radius, Num(0))
           /\ ~RLt(kept.polarDeg, Num(0)) /\ ~RLt(Num(180), kept.polarDeg)
           /\ RLt(Num(-180), kept.azimuthDeg) /\ ~RLt(Num(180), kept.azimuthDeg)
           /\ setFromSpherical(TargetSpherical(kept)) = VSub(snap.position, snap.target)
           /\ DOMAIN focusTargetConfigs' = DOMAIN focusTargetConfigs \cup {activeFocusKey}
           /\ \A k \in DOMAIN focusTargetConfigs \ {activeFocusKey} :
                focusTargetConfigs'[k] = focusTargetConfigs[k]
           /\ ~orbitEnabled']_vars

\* the view from (2, 1, 0) at (0, 1, 0) was kept for the wheels chapter
C6_Witness ==
  /\ ~orbitEnabled /\ focus = "wheels"
  /\ orbitCameraState = Some(Snapshot(Vec(2, 1, 0), Vec(0, 1, 0)))
  /\ focusTargetConfigs["wheels"] =
       [radius |-> Num(2), polarDeg |-> Num(90), azimuthDeg |-> Num(90),
        lookAt |-> Vec(0, 1, 0)]
  /\ focusTargetConfigs["overview"] = defaultConfig.focusTargets["overview"]

\* C7: once keepCurrentView stored the live pose P for a focus key, a later
\* resetFromOrbit on that key and a later re-selection of that key bring the
\* scripted camera to the pose of the stored FocusTarget, which is P.
C7_KeepRoundTrip ==
  [][\A P \in OrbitPoses :
       (activeFocusKey /= "" /\ focusTargetConfigs[activeFocusKey] = KeptTarget(P)) =>
         /\ deriveCameraFromFocus(activeFocusKey) = Some(P)
         /\ resetFromOrbit => PoseIs(rig', P)
         /\ (~orbitEnabled /\ TransitionStarted /\ focus' = activeFocusKey) =>
              /\ setFromSpherical(transition'.end) = VSub(P.position, P.target)
              /\ lookAtTarget' = P.target]_vars

\* C8: a transition started in Scripted, also while another is in flight,
\* starts at the live spherical pose, ends at the FocusTarget of the new key,
\* lasts 1.2 s and is at progress 0; the transition it supersedes leaves no
\* trace: the frame that completes the new one lands on the new end.
C8_NewTransitionSupersedes ==
  [][/\ TransitionStarted =>
          /\ transition'.start = spherical
          /\ transition'.end = TargetSpherical(focusTargetConfigs'[focus'])
          /\ transition'.duration = Rat(6, 5)
          /\ transition'.progress = Num(0)
          /\ ~orbitEnabled => transition'.active
     /\ (IsAdvance /\ transition.active /\ transition'.progress = Num(1)) =>
          /\ spherical' = transition.end
          /\ ~transition'.active]_vars

\* a transition back to the overview that started from a pose in between
C8_Witness ==
  /\ transition.active /\ transition.progress = Num(0)
  /\ transition.start = spherical
  /\ spherical.radius = Rat(13, 4)
  /\ transition.end = Sph(Num(5), Rat(1, 2), Num(0))

\* C9: in Scripted, an event after which the focus key and the reset token
\* equal those of the last started transition leaves start, end, progress
\* and active as they were.
C9_NoRestartWithoutChange ==
  [][(/\ ~orbitEnabled /\ ~orbitEnabled'
      /\ ~IsAdvance
      /\ focus' = prevFocusRef /\ resetCameraToken' = prevResetRef) =>
       /\ transition' = transition
       /\ spherical' = spherical]_vars

\* a chapter was added while the transition to the wheels was half way
C9_Witness ==
  /\ "chapter-a" \in DOMAIN focusTargetConfigs
  /\ activeChapterId = "chapter-a"
  /\ focus = "wheels" /\ prevFocusRef = "wheels"
  /\ transition.active /\ transition.progress = Rat(1, 2)

\* C10: at progress 1 a frame leaves the spherical pose as it is, however
\* many frames follow.
C10_AdvanceAfterCompletion ==
  [][(IsAdvance /\ transition.progress = Num(1)) =>
       /\ spherical' = spherical
       /\ transition' = transition]_vars

\* the transition to the wheels completed in one frame and a second frame
\* followed: the look-at point moved twice, the spherical pose is the end
C10_Witness ==
  /\ ~orbitEnabled /\ ~transition.active /\ transition.progress = Num(1)
  /\ transition.duration = Rat(6, 5)
  /\ spherical = transition.end
  /\ spherical = Sph(Num(3), Rat(1, 2), Rat(1, 2))
  /\ lookAtCurrent = << Num(0), Rat(529, 625), Num(0) >>

\* progress + deltaSeconds / duration, capped at 1
CappedProgress(delta) ==
  RMin(RAdd(transition.progress, RDiv(delta, transition.duration)), Num(1))

InUnitInterval(x) == ~RLt(x, Num(0)) /\ ~RLt(Num(1), x)

IsFocusChanged ==
  /\ \E rects \in [{c.id : c \in Range(chapters)} -> Rects], h \in InnerHeights :
       handleScroll(rects, h)
  /\ focus' /= focus

\* C12: a focus change that arrives in Scripted while the transition of an
\* earlier focus change has not been advanced by any frame replaces it: the
\* transition starts at the same live pose, at progress 0, its end and its
\* look-at target are those of the second key's FocusTarget, and the frame
\* that completes a transition lands on the FocusTarget of the focus key.
C12_SecondFocusChangeWins ==
  [][/\ (/\ IsFocusChanged /\ ~crashed'
         /\ ~orbitEnabled /\ transition.active /\ transition.progress = Num(0)) =>
          /\ transition'.start = spherical
          /\ transition'.start = transition.start
          /\ transition'.end = TargetSpherical(focusTargetConfigs[focus'])
          /\ lookAtTarget' = buildFocusTargets(focusTargetConfigs)[focus'].lookAt
          /\ transition'.progress = Num(0)
          /\ transition'.active
     /\ (IsAdvance /\ transition.active /\ transition'.progress = Num(1)) =>
          spherical' = TargetSpherical(focusTargetConfigs[focus])]_vars

\* a transition from the overview pose to the overview: the focus went to
\* another chapter and back before any frame
C12_Witness ==
  /\ ~orbitEnabled /\ focus = "overview"
  /\ transition.active /\ transition.progress = Num(0)
  /\ spherical = TargetSpherical(focusTargetConfigs["overview"])
  /\ transition.start = spherical
  /\ transition.end = spherical

\* C13: in Orbit a frame changes neither the progress or any other field of
\* the transition nor the scripted spherical pose, and no other event of an
\* Orbit session does: a transition in flight when Orbit was entered stays
\* as it was until Orbit is left.
C13_FrozenInOrbit ==
  [][/\ (IsAdvance /\ orbitEnabled) =>
          /\ transition' = transition
          /\ spherical' = spherical
     /\ (orbitEnabled /\ orbitEnabled') =>
          /\ transition' = transition
          /\ spherical' = spherical]_vars

\* Orbit was entered half way through the transition to the wheels, and the
\* orbit camera has been moved since
C13_Witness ==
  /\ orbitEnabled
  /\ transition.active /\ transition.progress = Rat(1, 2)
  /\ IsSome(orbitCameraState) /\ orbitCameraState /= preOrbitCameraState

\* C14: orbitEntered switches to Orbit and stores one snapshot as both the
\* manual state and the pre-orbit reference; when no manual snapshot was
\* stored before, that snapshot is the pose the scripted camera is at.
C14_OrbitEnteredSnapshot ==
  [][orbitEntered =>
       /\ orbitEnabled'
       /\ IsSome(orbitCameraState')
       /\ preOrbitCameraState' = orbitCameraState'
       /\ orbitCameraState = None => PoseIs(rig, The(orbitCameraState'))]_vars

\* C15: orbitCameraMoved(position, target) in Orbit replaces the manual
\* snapshot with (position, target) and changes nothing else: the state stays
\* Orbit, and the pre-orbit reference, the focus key, the reset token, the
\* FocusTargets, the rig and the configuration are as before.
C15_OrbitCameraMovedFrame ==
  [][\A pose \in OrbitPoses :
       (handleOrbitChange(pose) /\ orbitEnabled) =>
         /\ orbitCameraState' = Some(pose)
         /\ orbitEnabled'
         /\ preOrbitCameraState' = preOrbitCameraState
         /\ focus' = focus /\ focusRef' = focusRef
         /\ resetCameraToken' = resetCameraToken
         /\ focusTargetConfigs' = focusTargetConfigs
         /\ UNCHANGED <<rigVars, chapters, chapterOrder, selections, pricingRules,
                        activeChapterId>>]_vars

\* in the first Orbit session on the overview the orbit camera was moved to
\* (2, 1, 0) looking at (0, 1, 0); the pre-orbit reference is the overview pose
C15_Witness ==
  /\ orbitEnabled /\ focus = "overview" /\ resetCameraToken = 0
  /\ orbitCameraState = Some(Snapshot(Vec(2, 1, 0), Vec(0, 1, 0)))
  /\ preOrbitCameraState = deriveCameraFromFocus("overview")
  /\ focusTargetConfigs = defaultConfig.focusTargets

(***************************************************************************)
(* Further properties of the selection store.                              *)
(***************************************************************************)
\* C16: when the option a group has selected is removed, the options left in
\* the group are the others in their order, and the group's selection becomes
\* the value of the first of them, or "" when none is left.
C16_DeletedSelectionMovesToFirst ==
  [][\A p \in Places : \A v \in Range(OptionValues(GroupAt(p[1], p[2]))) :
       (handleDeleteOption(p[1], p[2], v) /\ SelectedIn(selections, p[2]) = v) =>
         LET left == GroupAt(p[1], p[2])'.options
         IN  /\ left = RemainingOptions(GroupAt(p[1], p[2]).options, v)
             /\ \A i \in 1..Len(left) : left[i].value /= v
             /\ SelectedIn(selections', p[2]) =
                  IF Len(left) > 0 THEN left[1].value ELSE ""]_vars

\* the paint group lost its selected option and has none left; the wheel
\* group had three options, lost big-wheels and selects the first one left
C16_Witness ==
  /\ \E g \in Range(AllGroups) :
       g.id = "paint" /\ Len(g.options) = 0 /\ selections["paint"] = ""
  /\ \E g \in Range(AllGroups) :
       /\ g.id = "wheel" /\ Len(g.options) = 2
       /\ g.options[1].value = "small-wheels"
       /\ g.options[2].value \in NewOptionValues
       /\ selections["wheel"] = "small-wheels"

\* C17: whenever a group has at least one option, its selection is the
\* value of one of those options; the selection is "" only in a group
\* without options.
C17_EmptyOnlyWithoutOptions ==
  \A g \in Range(AllGroups) :
    Len(g.options) > 0 => SelectedIn(selections, g.id) \in Range(OptionValues(g))

\* C18: every key of the selections is the id of a group of the
\* configuration; the groups a delete removes have no entry afterwards.
C18_KeysAreGroups ==
  DOMAIN selections \subseteq GroupIds

\* the wheels chapter and the paint group were deleted, and with them their
\* entries; the trim group keeps its entry
C18_Witness ==
  /\ "wheels" \notin {c.id : c \in Range(chapters)}
  /\ "body" \in {c.id : c \in Range(chapters)}
  /\ GroupIds = {"trim"}
  /\ DOMAIN selections = {"trim"}

\* C19: a set(groupId, value) the program performs has for value one of the
\* group's current option values, stores it as that group's selection and
\* leaves the selection of every other group and the configuration as they
\* were; no step stores a value that is not among the group's options.
C19_SetStoresOptionValue ==
  [][\A p \in Places : \A v \in UsedValues \cup NewOptionValues :
       onChangeSelection(p[2], v) =>
         /\ v \in Range(OptionValues(GroupAt(p[1], p[2])))
         /\ selections'[p[2]] = v
         /\ DOMAIN selections' = DOMAIN selections
         /\ \A k \in DOMAIN selections \ {p[2]} : selections'[k] = selections[k]
         /\ chapters' = chapters]_vars

\* small-wheels was selected in place of the default big-wheels, which is
\* still an option; the other groups keep their selections
C19_Witness ==
  /\ \E g \in Range(AllGroups) :
       g.id = "wheel" /\ OptionValues(g) = << "big-wheels", "small-wheels" >>
  /\ selections["wheel"] = "small-wheels"
  /\ selections["paint"] = "red-paint"
  /\ selections["trim"] = "sport-trim"

(***************************************************************************)
(* The total while prices are edited, chapters reordered, selections       *)
(* changed and options deleted.                                            *)
(***************************************************************************)
TotalNext ==
  \/ PricingNext
  \/ \E p \in Places : \E v \in Range(OptionValues(GroupAt(p[1], p[2]))) :
       handleDeleteOption(p[1], p[2], v)

TotalSpec == Init /\ [][TotalNext]_vars

\* the sum, over a set of (chapter id, group id) places, of the resolved
\* price of the option selected there
RECURSIVE SumOverPlaces(_)
SumOverPlaces(ps) ==
  IF ps = {} THEN 0
  ELSE LET p == CHOOSE x \in ps : TRUE
       IN  calculateOptionPrice(SelectedIn(selections, p[2]), selections)
             + SumOverPlaces(ps \ {p})

\* C20: the total is the sum, over every group of every chapter, of the price
\* calculateOptionPrice resolves for the group's selected option under the
\* same selections.
C20_TotalIsSumOfResolved ==
  totalPrice = SumOverPlaces(Places)

\* big-wheels is selected and has a rule entered for red-paint or sport-trim,
\* the paint group has no option left and selects "", and the total is made
\* of the resolved prices of the wheel and the trim selections
C20_Witness ==
  /\ selections["wheel"] = "big-wheels"
  /\ selections["paint"] = ""
  /\ \E d \in {"red-paint", "sport-trim"} : d \in DOMAIN pricingRules["big-wheels"]
  /\ totalPrice > 0
  /\ totalPrice = calculateOptionPrice("big-wheels", selections)
                    + calculateOptionPrice(selections["trim"], selections)

\* the option value is the selection of some group
SelectedSomewhere(v) ==
  \E g \in Range(AllGroups) : SelectedIn(selections, g.id) = v

\* selection changes and price edits in the matrix, the chapters left in place
DiagonalNext ==
  \/ \E p \in Places : \E v \in Range(OptionValues(GroupAt(p[1], p[2]))) :
       onChangeSelection(p[2], v)
  \/ /\ priceEdits < MaxPriceEdits
     /\ \E t \in Range(allOptions), d \in Range(allOptions) :
          /\ isEditable(t, d)
          /\ \E price \in {None} \cup {Some(n) : n \in Prices} :
               handleUpdatePrice(t, d, price)

DiagonalSpec == Init /\ [][DiagonalNext]_vars

\* C21: a write or a clearing of the diagonal rule rules[v][v] of an option v
\* that no group has selected leaves the total as it was; the total changes
\* with a diagonal rule only when its option is selected somewhere.
C21_DiagonalOfUnselectedKeepsTotal ==
  [][pricingRules' /= pricingRules =>
       \A v \in Range(allOptions), price \in {None} \cup {Some(n) : n \in Prices} :
         (~SelectedSomewhere(v) /\ handleUpdatePrice(v, v, price)) =>
           totalPrice' = totalPrice]_vars

\* the base price of small-wheels was set while big-wheels is selected, and
\* the total is the one of the initial configuration
C21_Witness ==
  /\ selections["wheel"] = "big-wheels"
  /\ ~SelectedSomewhere("small-wheels")
  /\ "small-wheels" \in DOMAIN pricingRules["small-wheels"]
  /\ pricingRules["small-wheels"]["small-wheels"] \in Prices
  /\ pricingRules["big-wheels"] = [k \in {"big-wheels"} |-> 300]
  /\ priceEdits = 1
  /\ totalPrice = 800

(***************************************************************************)
(* Prices while an option is added to a group, selections change and the   *)
(* matrix is edited.                                                       *)
(***************************************************************************)
AddedOptionValues == {"option-a"}

NewOptionNext ==
  \/ \E p \in Places : \E v \in Range(OptionValues(GroupAt(p[1], p[2]))) :
       onChangeSelection(p[2], v)
  \/ /\ priceEdits < MaxPriceEdits
     /\ \E t \in Range(allOptions), d \in Range(allOptions) :
          /\ isEditable(t, d)
          /\ \E price \in {None} \cup {Some(n) : n \in Prices} :
               handleUpdatePrice(t, d, price)
  \/ \E p \in Places, v \in AddedOptionValues \ UsedValues :
       handleAddOption(p[1], p[2], v)

NewOptionSpec == Init /\ [][NewOptionNext]_vars

\* the row of the option holds an entry keyed by the selection of some group
HasSelectedEntry(v) ==
  \E g \in Range(AllGroups) :
    /\ SelectedIn(selections, g.id) /= ""
    /\ SelectedIn(selections, g.id) \in DOMAIN pricingRules[v]

\* C22 (as amended): calculateOptionPrice has a value for every option value,
\* also for "" and for a value of no option; it is 0 for a value without a
\* rules object and for one whose rules object holds neither its diagonal
\* entry nor an entry keyed by a selected option; an added option therefore
\* prices at 0 until a price is entered in its row, and from then on at 0
\* whenever the row holds neither the diagonal nor an entry of a selection.
C22_MissingRulePricesZero ==
  /\ \A v \in UsedValues \cup AddedOptionValues \cup {"", "no-option"} :
       /\ calculateOptionPrice(v, selections) \in Nat
       /\ v \notin DOMAIN pricingRules => calculateOptionPrice(v, selections) = 0
       /\ (/\ v \in DOMAIN pricingRules
           /\ v \notin DOMAIN pricingRules[v]
           /\ ~HasSelectedEntry(v)) => calculateOptionPrice(v, selections) = 0
  /\ \A v \in AddedOptionValues \cap UsedValues :
       /\ v \notin DOMAIN pricingRules => calculateOptionPrice(v, selections) = 0
       /\ calculateOptionPrice(v, selections) /= 0 =>
            v \in DOMAIN pricingRules[v] \/ HasSelectedEntry(v)

\* option-a was added to the wheel group and is selected, no price was
\* entered for it; the diagonal of small-wheels was cleared and its row holds
\* only an entry for big-wheels, which is not selected
C22_Witness ==
  /\ selections["wheel"] = "option-a"
  /\ "option-a" \notin DOMAIN pricingRules
  /\ pricingRules["small-wheels"] \in
       {[k \in {"big-wheels"} |-> n] : n \in Prices}
  /\ calculateOptionPrice("small-wheels", selections) = 0
  /\ totalPrice = 500

\* C22 (as stated): ... an added option prices at 0 as long as its row has no
\* diagonal entry.
C22_NewOptionZeroUntilBasePrice ==
  \A v \in AddedOptionValues \cap UsedValues :
    (v \notin DOMAIN pricingRules \/ v \notin DOMAIN pricingRules[v]) =>
      calculateOptionPrice(v, selections) = 0

(***************************************************************************)
(* Group baselines.                                                        *)
(***************************************************************************)
\* a scan that keeps the price of the first option
RECURSIVE FirstPrice(_, _, _)
FirstPrice(opts, sel, min) ==
  IF Len(opts) = 0 THEN min
  ELSE LET price == calculateOptionPrice(Head(opts).value, sel)
       IN  FirstPrice(Tail(opts), sel, IF min = None THEN Some(price) ELSE min)

\* l.3819-3823: the scan over the options of a group; None is +Infinity
RECURSIVE MinPrice(_, _, _)
MinPrice(opts, sel, min) ==
  IF Len(opts) = 0 THEN min
  ELSE LET price == calculateOptionPrice(Head(opts).value, sel)
       IN  MinPrice(Tail(opts), sel,
                    IF min = None \/ price < The(min) THEN Some(price) ELSE min)

\* l.3815-3828
groupBaselines ==
  [gid \in GroupIds |->
     LET group == CHOOSE g \in Range(AllGroups) : g.id = gid
         min   == MinPrice(group.options, selections, None)
     IN  IF IsSome(min) THEN The(min) ELSE 0]

\* l.4152
getBaseline(groupId) ==
  IF groupId \in DOMAIN groupBaselines THEN groupBaselines[groupId] ELSE 0

\* selections, price edits in the enabled cells of the matrix and option
\* deletes, in the initial chapter order
BaselineNext ==
  \/ \E p \in Places : \E v \in Range(OptionValues(GroupAt(p[1], p[2]))) :
       onChangeSelection(p[2], v)
  \/ /\ priceEdits < MaxPriceEdits
     /\ \E t \in Range(allOptions), d \in Range(allOptions) :
          /\ isEditable(t, d)
          /\ \E price \in {None} \cup {Some(n) : n \in Prices} :
               handleUpdatePrice(t, d, price)
  \/ \E p \in Places : \E v \in Range(OptionValues(GroupAt(p[1], p[2]))) :
       handleDeleteOption(p[1], p[2], v)

BaselineSpec == Init /\ [][BaselineNext]_vars

\* C23: the baseline of a group with options is the resolved price of one of
\* its options and no option of the group resolves to less; the baseline of
\* a group without options is 0.
C23_BaselineIsMinimum ==
  \A g \in Range(AllGroups) :
    LET prices == {calculateOptionPrice(o.value, selections) : o \in Range(g.options)}
    IN  \E baseline \in {getBaseline(g.id)} :
          /\ prices /= {} => /\ baseline \in prices
                             /\ \A x \in prices : baseline <= x
          /\ prices = {} => baseline = 0

\* big-wheels resolves to an entered price of 400 or 500, the baseline of the
\* wheel group is the 0 of small-wheels, its second option, and the paint
\* group has no option left
C23_Witness ==
  /\ \E g \in Range(AllGroups) :
       g.id = "wheel" /\ OptionValues(g) = << "big-wheels", "small-wheels" >>
  /\ calculateOptionPrice("big-wheels", selections) \in Prices
  /\ calculateOptionPrice("small-wheels", selections) = 0
  /\ getBaseline("wheel") = 0
  /\ \E g \in Range(AllGroups) : g.id = "paint" /\ Len(g.options) = 0
  /\ getBaseline("paint") = 0

\* the entry rules[t][d], None when the row or the entry is absent
RuleEntry(rules, t, d) ==
  IF t \in DOMAIN rules /\ d \in DOMAIN rules[t] THEN Some(rules[t][d]) ELSE None

\* C24: whenever a step writes or clears an entry rules[target][dependency],
\* the dependency is the target itself or comes before it in the canonical
\* order of the options at that moment; an entry whose dependency comes
\* after its target is not touched by any step.
C24_WritesLowerTriangular ==
  [][pricingRules' /= pricingRules =>
       \A t \in Range(allOptions), d \in Range(allOptions) :
         RuleEntry(pricingRules', t, d) /= RuleEntry(pricingRules, t, d) =>
           IndexOf(allOptions, d) <= IndexOf(allOptions, t)]_vars

\* with the wheels chapter moved in front of the body chapter, an override of
\* small-wheels under big-wheels and one of red-paint under big-wheels were
\* entered; entries of big-wheels under red-paint cannot be entered then
C24_Witness ==
  /\ chapterOrder = << "wheels", "body" >>
  /\ RuleEntry(pricingRules, "small-wheels", "big-wheels") /= None
  /\ RuleEntry(pricingRules, "red-paint", "big-wheels") /= None
  /\ RuleEntry(pricingRules, "big-wheels", "red-paint") = None

(***************************************************************************)
(* Visibility resolver.                                                    *)
(***************************************************************************)
\* child.name of the nodes of the loaded scene
SceneNodes == {"roof", "spoiler"}

\* defaultConfig with visibility maps: the wheels chapter hides the roof,
\* red-paint names the roof as visible, big-wheels hides the spoiler
visibilityConfig ==
  [defaultConfig EXCEPT
     !.chapters[2].visibility = [m \in {"roof"} |-> FALSE],
     !.chapters[1].groups[1].options[1].visibility = [m \in {"roof"} |-> TRUE],
     !.chapters[2].groups[1].options[1].visibility = [m \in {"spoiler"} |-> FALSE]]

\* the names a visibility map maps to false
HiddenBy(visibility) == {m \in DOMAIN visibility : visibility[m] = FALSE}

\* l.4096-4107: the walk over the groups; the selected option of each group
\* adds the names its visibility map maps to false
RECURSIVE HideSelected(_, _, _)
HideSelected(gs, sel, hiddenMeshes) ==
  IF Len(gs) = 0 THEN hiddenMeshes
  ELSE LET selectedValue == SelectedIn(sel, Head(gs).id)
           found == SelectSeq(Head(gs).options, LAMBDA opt : opt.value = selectedValue)
       IN  HideSelected(Tail(gs), sel,
                        IF Len(found) > 0
                          THEN hiddenMeshes \cup HiddenBy(found[1].visibility)
                          ELSE hiddenMeshes)

\* a resolver in which an entry true of the selected option of a later group
\* shows a mesh again
RECURSIVE HideOrShowSelected(_, _, _)
HideOrShowSelected(gs, sel, hiddenMeshes) ==
  IF Len(gs) = 0 THEN hiddenMeshes
  ELSE LET selectedValue == SelectedIn(sel, Head(gs).id)
           found == SelectSeq(Head(gs).options, LAMBDA opt : opt.value = selectedValue)
       IN  HideOrShowSelected(Tail(gs), sel,
             IF Len(found) > 0
               THEN (hiddenMeshes \cup HiddenBy(found[1].visibility))
                      \ {m \in DOMAIN found[1].visibility : found[1].visibility[m] = TRUE}
               ELSE hiddenMeshes)

objectVisibilityWithShow ==
  LET found == SelectSeq(orderedChapters, LAMBDA c : c.id = activeChapterId)
      fromChapter == IF Len(found) > 0 THEN HiddenBy(found[1].visibility) ELSE {}
  IN  [mesh \in HideOrShowSelected(GroupsOf(orderedChapters), selections, fromChapter)
         |-> FALSE]

\* a resolver that only looks at the groups of the active chapter
objectVisibilityOfActiveChapter ==
  LET found == SelectSeq(orderedChapters, LAMBDA c : c.id = activeChapterId)
      fromChapter == IF Len(found) > 0 THEN HiddenBy(found[1].visibility) ELSE {}
  IN  [mesh \in HideSelected(GroupsOf(found), selections, fromChapter) |-> FALSE]

\* l.4086-4109: hiddenMeshes, from the ordered chapters, the active chapter
\* id and the selections the memo depends on
HiddenMeshes(ordered, active, sel) ==
  LET found == SelectSeq(ordered, LAMBDA c : c.id = active)
      fromChapter == IF Len(found) > 0 THEN HiddenBy(found[1].visibility) ELSE {}
  IN  HideSelected(GroupsOf(ordered), sel, fromChapter)

\* l.4085-4114
objectVisibility ==
  [mesh \in HiddenMeshes(orderedChapters, activeChapterId, selections) |-> FALSE]

\* l.3906-3928: the checkbox of a mesh in the row of an option
handleUpdateOptionVisibility(chapterId, groupId, optionValue, meshName, visible) ==
  /\ ~crashed
  /\ LET options == GroupAt(chapterId, groupId).options
         next == [i \in 1..Len(options) |->
                    IF options[i].value /= optionValue THEN options[i]
                    ELSE [options[i] EXCEPT !.visibility =
                            IF visible THEN MapDel(@, meshName)
                            ELSE MapPut(@, meshName, FALSE)]]
     IN  chapters' = updateGroupOptions(chapters, chapterId, groupId, next)
  /\ UNCHANGED <<chapterOrder, selections, pricingRules, focusTargetConfigs,
                 activeChapterId, cameraVars, rigVars, priceEdits>>

\* the option maps the mesh to false
IsHidden(chapterId, groupId, optionValue, meshName) ==
  \E o \in Range(GroupAt(chapterId, groupId).options) :
    o.value = optionValue /\ meshName \in HiddenBy(o.visibility)

VisibilityNext ==
  \/ \E p \in Places : \E v \in Range(OptionValues(GroupAt(p[1], p[2]))) :
       onChangeSelection(p[2], v)
  \/ \E p \in Places, mesh \in SceneNodes :
       \E v \in Range(OptionValues(GroupAt(p[1], p[2]))) :
         handleUpdateOptionVisibility(p[1], p[2], v, mesh,
                                      IsHidden(p[1], p[2], v, mesh))
  \/ \E rects \in [{c.id : c \in Range(chapters)} -> Rects], h \in InnerHeights :
       handleScroll(rects, h)

VisibilitySpec == InitFrom(visibilityConfig) /\ [][VisibilityNext]_vars

\* the option selected in the group, as a set: empty when the selection is
\* the value of none of the group's options
SelectedOptions(g) ==
  {o \in Range(g.options) : o.value = SelectedIn(selections, g.id)}

\* C25: the hidden set holds exactly the names the visibility map of the
\* active chapter maps to false and the names the visibility map of the
\* selected option of any group of any chapter maps to false.
C25_HiddenSetIsUnion ==
  LET fromChapter == UNION {HiddenBy(c.visibility) :
                              c \in {x \in Range(chapters) : x.id = activeChapterId}}
      fromOptions == UNION {HiddenBy(o.visibility) :
                              o \in UNION {SelectedOptions(g) : g \in Range(AllGroups)}}
  IN  /\ DOMAIN objectVisibility = fromChapter \cup fromOptions
      /\ \A m \in DOMAIN objectVisibility : objectVisibility[m] = FALSE

\* the body chapter is active, sport-trim was made to hide the roof, and
\* big-wheels hides the spoiler but small-wheels is selected: only the roof
\* is hidden
C25_Witness ==
  /\ activeChapterId = "body"
  /\ selections["wheel"] = "small-wheels"
  /\ IsHidden("wheels", "wheel", "big-wheels", "spoiler")
  /\ IsHidden("body", "trim", "sport-trim", "roof")
  /\ DOMAIN objectVisibility = {"roof"}

\* C26: a mesh the active chapter hides is in the hidden set, and so is a
\* mesh a selected option hides, whatever entries true the visibility maps
\* of the selected options hold for it.
C26_TrueNeverShows ==
  \A m \in SceneNodes :
    (\/ \E c \in Range(chapters) : c.id = activeChapterId /\ m \in HiddenBy(c.visibility)
     \/ \E g \in Range(AllGroups) : \E o \in SelectedOptions(g) : m \in HiddenBy(o.visibility))
      => m \in DOMAIN objectVisibility

\* the wheels chapter is active and hides the roof, the selected red-paint
\* maps the roof to true, and the roof is hidden
C26_Witness ==
  /\ activeChapterId = "wheels"
  /\ \E c \in Range(chapters) : c.id = "wheels" /\ "roof" \in HiddenBy(c.visibility)
  /\ selections["paint"] = "red-paint"
  /\ \E o \in Range(GroupAt("body", "paint").options) :
       o.value = "red-paint" /\ "roof" \in DOMAIN o.visibility /\ o.visibility["roof"] = TRUE
  /\ "roof" \in DOMAIN objectVisibility

(***************************************************************************)
(* The focus tracker.                                                      *)
(***************************************************************************)
\* extents a scroll position can give a chapter element: the two of Rects
\* and one tall element that spans the marker with its midpoint far below it
TrackerRects == Rects \cup { <<0, 200>> }

TrackerNext ==
  \/ \E rects \in [{c.id : c \in Range(chapters)} -> TrackerRects], h \in InnerHeights :
       handleScroll(rects, h)
  \/ \E delta \in Deltas : useFrame(delta)
  \/ \E i \in 1..Len(chapterOrder), j \in 1..Len(chapterOrder) :
       (j = i - 1 \/ j = i + 1) /\ moveChapter(i, j)
  \/ \E id \in NewChapterIds \ {c.id : c \in Range(chapters)} : addChapter(id)

TrackerSpec == Init /\ [][TrackerNext]_vars

\* twice the distance of the midpoint of a chapter's extent to the marker
MidDist2(rects, innerHeight, chapterId) ==
  Abs((rects[chapterId][1] + rects[chapterId][2]) - (7 * innerHeight) \div 10)

\* the marker lies within the chapter's extent
ContainsMarker(rects, innerHeight, chapterId) ==
  /\ 20 * rects[chapterId][1] <= 7 * innerHeight
  /\ 7 * innerHeight <= 20 * rects[chapterId][2]

\* C27: a scroll makes active the chapter whose extent midpoint is nearest to
\* the marker at 35% of the viewport height, whichever chapter's extent
\* contains the marker, and of several equally near chapters the earliest in
\* canonical order.
C27_NearestMidpointEarliestWins ==
  [][(activeChapterId' /= activeChapterId \/ focusRef' /= focusRef) =>
       LET ordered == orderedChapters
       IN  \A rects \in [{c.id : c \in Range(chapters)} -> TrackerRects], h \in InnerHeights :
             LET dist == [i \in 1..Len(ordered) |-> MidDist2(rects, h, ordered[i].id)]
             IN  \/ \E i \in 1..Len(ordered) :
                      /\ activeChapterId' = ordered[i].id
                      /\ focusRef' = ordered[i].focus
                      /\ \A j \in 1..Len(ordered) :
                           /\ dist[i] <= dist[j]
                           /\ j < i => dist[i] < dist[j]
                 \/ ~handleScroll(rects, h)]_vars

\* a chapter was added, which made it active, and moved to the front; a
\* later scroll among the three chapters made wheels active
C27_Witness ==
  /\ Len(chapterOrder) = 3
  /\ chapterOrder[1] = "chapter-a"
  /\ activeChapterId = "wheels"
  /\ focusRef = "wheels"
  /\ focus = "wheels"
  /\ ~crashed

\* C28: a scroll emits an active chapter or a focus key only when it differs
\* from the one the tracker emitted before: once the tracker has emitted, a
\* scroll whose nearest chapter is the one of the previous evaluation (its
\* focus key is the recorded focusRef) changes neither the active chapter
\* nor the focus.
C28_EmitsOnlyOnChange ==
  [][(activeChapterId' /= activeChapterId \/ focus' /= focus) =>
       LET ordered == orderedChapters
       IN  \A rects \in [{c.id : c \in Range(chapters)} -> TrackerRects], h \in InnerHeights :
             LET near == The(Nearest(ordered, rects, (7 * h) \div 10, None, -1))
             IN  (/\ focusRef /= defaultFocus(defaultConfig.chapters, defaultConfig.focusTargets)
                  /\ near.focus = focusRef
                  /\ handleScroll(rects, h))
                   => /\ activeChapterId' = activeChapterId
                      /\ focus' = focus]_vars

\* C29: when the focus key has no FocusTarget the pose computation does not
\* fail: the rig is alive and aims at a focus key that has a FocusTarget.
C29_MissingTargetFallsBack ==
  (focus \notin DOMAIN focusTargetConfigs /\ DOMAIN focusTargetConfigs /= {}) =>
    /\ ~crashed
    /\ prevFocusRef \in DOMAIN focusTargetConfigs

(***************************************************************************)
(* The scene: SingleModel applies the hidden set to the nodes of the model.*)
(***************************************************************************)
\* an effect that hides the named nodes and leaves the others as they are
ApplyVisibilityHidingOnly(nodes, visibility) ==
  [n \in DOMAIN nodes |->
     IF n \in DOMAIN visibility /\ visibility[n] = FALSE THEN FALSE ELSE nodes[n]]

\* l.2538-2556: the effect traverses the instance and assigns child.visible
\* of every node; nodes maps a node name to its visible flag
ApplyVisibility(nodes, visibility) ==
  [n \in DOMAIN nodes |-> ~(n \in DOMAIN visibility /\ visibility[n] = FALSE)]

\* the visible flags after the effect has run for the current hidden set,
\* on a cloned scene whose nodes are visible
nodesVisible == ApplyVisibility([n \in SceneNodes |-> TRUE], objectVisibility)

\* C30 (as the code has it): when the hidden set of a new state is applied
\* to the scene, the named nodes are set to not-visible and every node not
\* named is set to visible, whatever its flag was.
C30_AppliedSetsEveryNode ==
  [][(chapters' /= chapters \/ selections' /= selections
        \/ activeChapterId' /= activeChapterId) =>
       \A ordered \in {orderedChapters'} :
         LET hidden == HiddenMeshes(ordered, activeChapterId', selections')
             after  == ApplyVisibility(nodesVisible, [m \in hidden |-> FALSE])
         IN  /\ \A n \in SceneNodes : after[n] = (n \notin hidden)
             /\ \A prev \in [SceneNodes -> BOOLEAN] :
                  ApplyVisibility(prev, [m \in hidden |-> FALSE]) = after]_vars

\* C30 (as stated): when the hidden set of a new state is applied to the
\* scene, the named nodes are set to not-visible and the flag of every node
\* not named is what it was before.
C30_OthersUntouched ==
  [][(chapters' /= chapters \/ selections' /= selections
        \/ activeChapterId' /= activeChapterId) =>
       \A ordered \in {orderedChapters'} :
         LET hidden == HiddenMeshes(ordered, activeChapterId', selections')
             after  == ApplyVisibility(nodesVisible, [m \in hidden |-> FALSE])
         IN  \A n \in SceneNodes :
               IF n \in hidden THEN after[n] = FALSE
               ELSE after[n] = nodesVisible[n]]_vars

\* the spoiler, hidden at first by the selected big-wheels, is visible
\* after small-wheels was selected, and the roof is hidden by the wheels
\* chapter made active by a scroll
C30_Witness ==
  /\ activeChapterId = "wheels"
  /\ selections["wheel"] = "small-wheels"
  /\ IsHidden("wheels", "wheel", "big-wheels", "spoiler")
  /\ nodesVisible = [n \in SceneNodes |-> n = "spoiler"]

(***************************************************************************)
(* The scripted camera across Orbit sessions.                              *)
(***************************************************************************)
\* C31: whenever the rig is in Scripted and no transition is active, its
\* spherical pose and its look-at target are those of the FocusTarget of
\* the current focus key.
C31_RestPoseIsFocusTarget ==
  (~crashed /\ ~orbitEnabled /\ ~transition.active
     /\ focus \in DOMAIN focusTargetConfigs) =>
    LET target == buildFocusTargets(focusTargetConfigs)[focus]
    IN  /\ spherical = Sph(target.radius, target.polar, target.azimuth)
        /\ lookAtTarget = target.lookAt

\* C32: the rig does not move in Orbit, so at a reset its pose is still the
\* one it had immediately before the most recent orbitEntered; a reset of a
\* camera that was at rest before that entry leaves the spherical pose and
\* the look-at point at those values.
C32_ResetReturnsToEntryPose ==
  [][(orbitEnabled /\ ~orbitEnabled' /\ AtRest(rig) /\ resetFromOrbit) =>
       /\ spherical' = spherical
       /\ lookAtCurrent' = lookAtCurrent]_vars

(***************************************************************************)
(* The FocusTargets while chapters are added and deleted and views kept.   *)
(***************************************************************************)
\* The pose of the FocusTarget of an added chapter (polar 60, azimuth 30)
\* has irrational coordinates: an Orbit session is entered only where the
\* button does not have to derive it.
TargetsNext ==
  \/ \E id \in NewChapterIds \ {c.id : c \in Range(chapters)} : addChapter(id)
  \/ \E c \in Range(chapters) : deleteChapter(c.id)
  \/ /\ \/ IsSome(orbitCameraState)
        \/ IsSome(preOrbitCameraState)
        \/ activeFocusKey \in DOMAIN defaultConfig.focusTargets
     /\ orbitEntered
  \/ \E pose \in OrbitPoses : handleOrbitChange(pose)
  \/ handleKeepCurrentView

TargetsSpec == Init /\ [][TargetsNext]_vars

\* C33: the focus key handed to the rig and the focus key of every chapter
\* have a FocusTarget, and the rig never reads a missing one.
C33_FocusKeysHaveTargets ==
  /\ ~crashed
  /\ focus \in DOMAIN focusTargetConfigs
  /\ \A c \in Range(chapters) : c.focus \in DOMAIN focusTargetConfigs

(***************************************************************************)
(* Stored rules and the chapter list under reordering.                     *)
(***************************************************************************)
\* C34: every stored off-diagonal rule rules[target][dependency] has its
\* dependency before its target in the current canonical order of options.
C34_StoredRulesLowerTriangular ==
  \A t \in Range(allOptions), d \in Range(allOptions) :
    (t /= d /\ RuleEntry(pricingRules, t, d) /= None) =>
      IndexOf(allOptions, d) < IndexOf(allOptions, t)

(***************************************************************************)
(* Termination of a transition: the frame callback runs on every frame.    *)
(***************************************************************************)
\* The frames left before MaxFrames finish a transition of 1.2 s started
\* now, whatever their frame times
FramesLeftFinish ==
  \A delta \in Deltas :
    ~RLt(RMul(Num(MaxFrames - frames), delta), Rat(6, 5))

\* scrolls, frames, reorderings and added chapters in Scripted; a focus
\* change is taken where the frames explored let its transition finish
FramesNext ==
  \/ \E rects \in [{c.id : c \in Range(chapters)} -> Rects], h \in InnerHeights :
       FramesLeftFinish /\ handleScroll(rects, h)
  \/ \E delta \in Deltas : useFrame(delta)
  \/ \E i \in 1..Len(chapterOrder), j \in 1..Len(chapterOrder) :
       (j = i - 1 \/ j = i + 1) /\ moveChapter(i, j)
  \/ \E id \in NewChapterIds \ {c.id : c \in Range(chapters)} : addChapter(id)

\* the states in which a frame changes the rig: Scripted, not at rest
FrameDue == ~crashed /\ ~orbitEnabled /\ frames < MaxFrames /\ ~AtRest(rig)

\* useFrame is called for every rendered frame (l.2493): weak fairness of
\* the frame step, with its enabling condition written as FrameDue
FramesFair == []<>(~FrameDue) \/ []<><<IsAdvance>>_vars

FramesSpec == Init /\ [][FramesNext]_vars /\ FramesFair

\* the transition has reached progress 1, is inactive and has left the
\* spherical pose at its end pose
TransitionDone ==
  /\ ~transition.active
  /\ transition.progress = Num(1)
  /\ spherical = transition.end

\* C35: in Scripted, with the frame callback called on every frame, an
\* active transition is followed by a state in which the transition has
\* reached progress 1, is inactive, and the spherical pose is its end pose.
C35_TransitionsFinish ==
  (~orbitEnabled /\ transition.active) ~> TransitionDone

\* the transition to the added chapter's FocusTarget has finished
C35_Witness ==
  /\ ~orbitEnabled /\ focus = "chapter-a"
  /\ transition.duration = Rat(6, 5)
  /\ transition.end = Sph(Num(5), Rat(1, 3), Rat(1, 6))
  /\ TransitionDone

(***************************************************************************)
(* The chapter list: add, delete, reorder, and the focus tracker.          *)
(***************************************************************************)
ChapterListNext ==
  \/ \E id \in NewChapterIds \ {c.id : c \in Range(chapters)} : addChapter(id)
  \/ \E c \in Range(chapters) : deleteChapter(c.id)
  \/ \E i \in 1..Len(chapterOrder), j \in 1..Len(chapterOrder) :
       (j = i - 1 \/ j = i + 1) /\ moveChapter(i, j)
  \/ \E rects \in [{c.id : c \in Range(chapters)} -> Rects], h \in InnerHeights :
       handleScroll(rects, h)
  \/ \E delta \in Deltas : useFrame(delta)

ChapterListSpec == Init /\ [][ChapterListNext]_vars

ChapterIds == {c.id : c \in Range(chapters)}

\* C36: whenever at least one chapter exists, activeChapterId is the id of
\* an existing chapter.
C36_ActiveChapterExists ==
  Len(chapters) > 0 => activeChapterId \in ChapterIds

\* the body chapter was deleted while it was active: the tracker has never
\* emitted wheels, and wheels, the first remaining chapter, is active
C36_Witness ==
  /\ chapterOrder = << "wheels" >>
  /\ focusRef = "overview"
  /\ activeChapterId = "wheels"
  /\ ~crashed

\* C38: the canonical chapter order holds every existing chapter exactly
\* once and no deleted chapter: chapterOrder lists the ids of the chapters
\* without repetition, and orderedChapters is the chapters in that order.
C38_OrderIsPermutation ==
  /\ Range(chapterOrder) = ChapterIds
  /\ Len(chapterOrder) = Cardinality(ChapterIds)
  /\ Len(chapters) = Cardinality(ChapterIds)
  /\ Len(orderedChapters) = Len(chapters)
  /\ \A i \in 1..Len(orderedChapters) :
       /\ orderedChapters[i] \in Range(chapters)
       /\ orderedChapters[i].id = chapterOrder[i]

\* a chapter was added and moved in front of wheels, and body was deleted
C38_Witness ==
  /\ chapterOrder = << "chapter-a", "wheels" >>
  /\ [i \in 1..Len(chapters) |-> chapters[i].id] = << "wheels", "chapter-a" >>
  /\ [i \in 1..Len(orderedChapters) |-> orderedChapters[i].id] = << "chapter-a", "wheels" >>

\* C37: the keep callback invoked while no live manual snapshot exists, or
\* while there is no active focus key, has no step that changes the
\* FocusTargets, the focus key or the Orbit state (nor anything else).
C37_KeepWithoutSnapshotOrKeyIsNoOp ==
  (~crashed /\ (orbitCameraState = None \/ activeFocusKey = "")) =>
    ~ENABLED (KeepCurrentView /\ vars' /= vars)

\* in Orbit with a live snapshot after every chapter was deleted: there is no
\* active focus key, and the callback can be invoked
C37_Witness ==
  /\ ~crashed /\ orbitEnabled
  /\ IsSome(orbitCameraState) /\ activeFocusKey = ""
  /\ ENABLED KeepCurrentView

====
